---- MODULE Spec2Model ----
(***************************************************************************)
(* ImgVault native messaging host (native-host/src-tauri/src/main.rs).     *)
(*                                                                         *)
(* The host runs in one of two modes (main): the headless message loop     *)
(* handle_native_messaging, which relays length-prefixed JSON requests     *)
(* from the browser to the yt-dlp tool, or the GUI, whose commands         *)
(* check_registration, register_host and unregister_host maintain the      *)
(* registry entry and the manifest file.                                   *)
(*                                                                         *)
(* Text is modelled as sequences of bytes (0..255, ASCII codes), so that   *)
(* framing, UTF-8 decoding, JSON parsing and JSON serialisation are        *)
(* computed rather than assumed.                                           *)
(***************************************************************************)
EXTENDS Integers, Sequences, FiniteSets, TLC

VARIABLES
    os,             \* "windows" or "other": cfg(target_os = "windows")
    endian,         \* "little" or "big": the host's native byte order
    mode,           \* "native" (message loop) or "gui" (Tauri commands)
    stdin,          \* bytes the peer wrote to the host's stdin, not yet read
    stdinClosed,    \* the peer closed its end of stdin
    sent,           \* number of frames the peer has sent
    cut,            \* the last of them was cut short
    pc,             \* position of handle_native_messaging in its loop
    message_length, \* main.rs:241
    message_buffer, \* main.rs:244
    response,       \* main.rs:258, the NativeResponse of this iteration
    response_json,  \* main.rs:314
    outBuf,         \* bytes accepted by write_all, not yet flushed
    wire,           \* bytes delivered to the peer on stdout
    children,       \* the host's child processes (yt-dlp) and their pipes
    capOut,         \* stdout bytes the host has collected
    capErr,         \* stderr bytes the host has collected
    cur,            \* history of the current iteration (request, tool run)
    stats,          \* history counters (frames read, responses, spawns)
    registry,       \* HKCU\Software\Google\Chrome\NativeMessagingHosts
    manifest,       \* manifest.json beside the executable
    lastCmd,        \* history of the GUI commands (last call, last result)
    gui_pc          \* position of the GUI's main thread inside test_download

vars == <<os, endian, mode, stdin, stdinClosed, sent, cut, pc, message_length,
          message_buffer, response, response_json, outBuf, wire,
          children, capOut, capErr, cur, stats, registry, manifest, lastCmd,
          gui_pc>>

(***************************************************************************)
(* Bounds of the model.                                                    *)
(***************************************************************************)
\* frames (complete or truncated) the peer sends in one run
MaxFrames == 2
\* capacity of an OS pipe between the child and the host, in bytes
PipeCap == 4

(***************************************************************************)
(* String literals of the program, as ASCII bytes.                         *)
(***************************************************************************)
\* 'action'
S_action == <<97, 99, 116, 105, 111, 110>>
\* 'url'
S_url == <<117, 114, 108>>
\* 'output_path'
S_output_path == <<111, 117, 116, 112, 117, 116, 95, 112, 97, 116, 104>>
\* 'download'
S_download == <<100, 111, 119, 110, 108, 111, 97, 100>>
\* 'Missing url or output_path'
S_MissingParams == <<77, 105, 115, 115, 105, 110, 103, 32, 117, 114, 108, 32, 111, 114, 32, 111, 117, 116, 112, 117, 116, 95, 112, 97, 116, 104>>
\* 'Unknown action'
S_UnknownAction == <<85, 110, 107, 110, 111, 119, 110, 32, 97, 99, 116, 105, 111, 110>>
\* 'Download complete'
S_DownloadComplete == <<68, 111, 119, 110, 108, 111, 97, 100, 32, 99, 111, 109, 112, 108, 101, 116, 101>>
\* 'Failed to parse message: '
S_FailedToParse == <<70, 97, 105, 108, 101, 100, 32, 116, 111, 32, 112, 97, 114, 115, 101, 32, 109, 101, 115, 115, 97, 103, 101, 58, 32>>
\* 'yt-dlp did not return a file path'
S_NoFilePath == <<121, 116, 45, 100, 108, 112, 32, 100, 105, 100, 32, 110, 111, 116, 32, 114, 101, 116, 117, 114, 110, 32, 97, 32, 102, 105, 108, 101, 32, 112, 97, 116, 104>>
\* 'yt-dlp failed: '
S_YtDlpFailed == <<121, 116, 45, 100, 108, 112, 32, 102, 97, 105, 108, 101, 100, 58, 32>>
\* 'Failed to execute yt-dlp: '
S_FailedToExecute == <<70, 97, 105, 108, 101, 100, 32, 116, 111, 32, 101, 120, 101, 99, 117, 116, 101, 32, 121, 116, 45, 100, 108, 112, 58, 32>>
\* 'null'
S_null == <<110, 117, 108, 108>>
\* 'true'
S_true == <<116, 114, 117, 101>>
\* 'false'
S_false == <<102, 97, 108, 115, 101>>
\* '{"success":'
J_success == <<123, 34, 115, 117, 99, 99, 101, 115, 115, 34, 58>>
\* ',"message":'
J_message == <<44, 34, 109, 101, 115, 115, 97, 103, 101, 34, 58>>
\* ',"filePath":'
J_filePath == <<44, 34, 102, 105, 108, 101, 80, 97, 116, 104, 34, 58>>

(***************************************************************************)
(* Bytes and integers.                                                     *)
(***************************************************************************)
Byte == 0..255

\* u32::to_le_bytes / u32::to_be_bytes of (n as u32): the four low bytes of
\* n, which is also what the truncating conversion "as u32" (main.rs:315)
\* keeps of a usize
ToLeBytes(n) == << n % 256, (n \div 256) % 256, (n \div 65536) % 256,
                   (n \div 16777216) % 256 >>
ToBeBytes(n) == << (n \div 16777216) % 256, (n \div 65536) % 256,
                   (n \div 256) % 256, n % 256 >>

\* the length written big-endian on every host (to_be_bytes)
ToNeBytesBigEndian(n) == ToBeBytes(n)

\* u32::to_ne_bytes on this host (main.rs:320)
ToNeBytes(n) == IF endian = "little" THEN ToLeBytes(n) ELSE ToBeBytes(n)

\* u32::from_ne_bytes on this host (main.rs:241)
FromNeBytes(b) ==
    IF endian = "little"
    THEN b[1] + 256 * b[2] + 65536 * b[3] + 16777216 * b[4]
    ELSE b[4] + 256 * b[3] + 65536 * b[2] + 16777216 * b[1]

Min(a, b) == IF a < b THEN a ELSE b

\* Option<T>
None == [some |-> FALSE, v |-> <<>>]
Some(x) == [some |-> TRUE, v |-> x]

\* the bytes after the first n
Drop(s, n) == SubSeq(s, n + 1, Len(s))

\* str::contains
Contains(hay, needle) ==
    \E i \in 1..(Len(hay) - Len(needle) + 1) :
        SubSeq(hay, i, i + Len(needle) - 1) = needle

StartsWithAt(s, i, lit) ==
    /\ i + Len(lit) - 1 <= Len(s)
    /\ SubSeq(s, i, i + Len(lit) - 1) = lit

(***************************************************************************)
(* UTF-8 (String::from_utf8, String::from_utf8_lossy, str::trim).          *)
(***************************************************************************)
IsCont(b) == b >= 128 /\ b <= 191

\* number of bytes a sequence starting with lead byte b must have, 0 if b
\* cannot start one
Utf8Need(b) ==
    IF b < 128 THEN 1
    ELSE IF b >= 194 /\ b <= 223 THEN 2
    ELSE IF b >= 224 /\ b <= 239 THEN 3
    ELSE IF b >= 240 /\ b <= 244 THEN 4
    ELSE 0

\* the second byte allowed after lead byte b (no overlong forms, no
\* surrogates, nothing above U+10FFFF)
Utf8SecondOk(b, c) ==
    IF b = 224 THEN c >= 160 /\ c <= 191
    ELSE IF b = 237 THEN c >= 128 /\ c <= 159
    ELSE IF b = 240 THEN c >= 144 /\ c <= 191
    ELSE IF b = 244 THEN c >= 128 /\ c <= 143
    ELSE IsCont(c)

\* the character at position i of s: valid with n bytes, or an invalid
\* sequence of n bytes (the maximal prefix of a well-formed sequence)
Utf8Scan(s, i) ==
    LET need == Utf8Need(s[i]) IN
    IF need = 0 THEN [valid |-> FALSE, n |-> 1]
    ELSE IF need = 1 THEN [valid |-> TRUE, n |-> 1]
    ELSE IF i + 1 > Len(s) \/ ~Utf8SecondOk(s[i], s[i + 1])
         THEN [valid |-> FALSE, n |-> 1]
    ELSE IF need = 2 THEN [valid |-> TRUE, n |-> 2]
    ELSE IF i + 2 > Len(s) \/ ~IsCont(s[i + 2])
         THEN [valid |-> FALSE, n |-> 2]
    ELSE IF need = 3 THEN [valid |-> TRUE, n |-> 3]
    ELSE IF i + 3 > Len(s) \/ ~IsCont(s[i + 3])
         THEN [valid |-> FALSE, n |-> 3]
    ELSE [valid |-> TRUE, n |-> 4]

\* U+FFFD REPLACEMENT CHARACTER
Replacement == <<239, 191, 189>>

\* the element of a one-element set; {e(x) : x \in {v}} computes v once
\* however often e uses it
The(S) == CHOOSE x \in S : TRUE

\* the next k characters of s from position i, decoded: where they end,
\* whether all were valid, and the text with every invalid sequence replaced.
\* The run is halved so that the evaluation stays shallow on long texts.
RECURSIVE Utf8Run(_, _, _)
Utf8Run(s, i, k) ==
    IF k = 0 \/ i > Len(s) THEN [next |-> i, valid |-> TRUE, text |-> <<>>]
    ELSE IF k = 1
    THEN LET c == Utf8Scan(s, i) IN
         [next |-> i + c.n, valid |-> c.valid,
          text |-> IF c.valid THEN SubSeq(s, i, i + c.n - 1) ELSE Replacement]
    ELSE The({The({[next |-> b.next, valid |-> a.valid /\ b.valid,
                    text |-> a.text \o b.text] :
                       b \in {Utf8Run(s, a.next, k - (k \div 2))}}) :
                  a \in {Utf8Run(s, i, k \div 2)}})

\* String::from_utf8(bytes).is_ok() (main.rs:250)
IsUtf8(s) == Utf8Run(s, 1, Len(s)).valid

\* String::from_utf8_lossy (main.rs:161, main.rs:171)
FromUtf8Lossy(s) == Utf8Run(s, 1, Len(s)).text

\* char::is_whitespace, on the UTF-8 encoding of the character
WhiteSpace ==
    {<<c>> : c \in {9, 10, 11, 12, 13, 32}}
        \cup {<<194, 133>>, <<194, 160>>, <<225, 154, 128>>}
        \cup {<<226, 128, c>> : c \in (128..138) \cup {168, 169, 175}}
        \cup {<<226, 129, 159>>, <<227, 128, 128>>}

RECURSIVE TrimStart(_)
TrimStart(s) ==
    The({IF \E w \in WhiteSpace : StartsWithAt(t, 1, w)
         THEN TrimStart(Drop(t, Len(CHOOSE w \in WhiteSpace : StartsWithAt(t, 1, w))))
         ELSE t :
             t \in {s}})

EndsWith(s, lit) == Len(lit) <= Len(s) /\ SubSeq(s, Len(s) - Len(lit) + 1, Len(s)) = lit

RECURSIVE TrimEnd(_)
TrimEnd(s) ==
    The({IF \E w \in WhiteSpace : EndsWith(t, w)
         THEN TrimEnd(SubSeq(t, 1, Len(t) - Len(CHOOSE w \in WhiteSpace : EndsWith(t, w))))
         ELSE t :
             t \in {s}})

\* str::trim (main.rs:162)
Trim(s) == TrimEnd(TrimStart(s))

(***************************************************************************)
(* serde_json::from_str::<NativeMessage> (main.rs:16-21, main.rs:258).     *)
(*                                                                         *)
(* The parser covers the JSON the peer sends in this model: objects whose  *)
(* values are strings, numbers (digits), null, true and false, with        *)
(* optional whitespace.  Nested values and \u escapes do not occur in the  *)
(* inputs and are reported as syntax errors.  An error is the text of      *)
(* serde_json's error code; its " at line L column C" suffix is left out.  *)
(***************************************************************************)
\* 'expected value'
E_ExpectedValue == <<101, 120, 112, 101, 99, 116, 101, 100, 32, 118, 97, 108, 117, 101>>
\* 'EOF while parsing an object'
E_EofObject == <<69, 79, 70, 32, 119, 104, 105, 108, 101, 32, 112, 97, 114, 115, 105, 110, 103, 32, 97, 110, 32, 111, 98, 106, 101, 99, 116>>
\* 'EOF while parsing a string'
E_EofString == <<69, 79, 70, 32, 119, 104, 105, 108, 101, 32, 112, 97, 114, 115, 105, 110, 103, 32, 97, 32, 115, 116, 114, 105, 110, 103>>
\* 'EOF while parsing a value'
E_EofValue == <<69, 79, 70, 32, 119, 104, 105, 108, 101, 32, 112, 97, 114, 115, 105, 110, 103, 32, 97, 32, 118, 97, 108, 117, 101>>
\* 'key must be a string'
E_KeyMustBeString == <<107, 101, 121, 32, 109, 117, 115, 116, 32, 98, 101, 32, 97, 32, 115, 116, 114, 105, 110, 103>>
\* 'expected `:`'
E_ExpectedColon == <<101, 120, 112, 101, 99, 116, 101, 100, 32, 96, 58, 96>>
\* 'expected `,` or `}`'
E_ExpectedCommaOrBrace == <<101, 120, 112, 101, 99, 116, 101, 100, 32, 96, 44, 96, 32, 111, 114, 32, 96, 125, 96>>
\* 'trailing characters'
E_TrailingCharacters == <<116, 114, 97, 105, 108, 105, 110, 103, 32, 99, 104, 97, 114, 97, 99, 116, 101, 114, 115>>
\* 'missing field `action`'
E_MissingAction == <<109, 105, 115, 115, 105, 110, 103, 32, 102, 105, 101, 108, 100, 32, 96, 97, 99, 116, 105, 111, 110, 96>>
\* 'invalid type: '
E_InvalidType == <<105, 110, 118, 97, 108, 105, 100, 32, 116, 121, 112, 101, 58, 32>>
\* ', expected a string'
E_ExpectedString == <<44, 32, 101, 120, 112, 101, 99, 116, 101, 100, 32, 97, 32, 115, 116, 114, 105, 110, 103>>
\* ', expected struct NativeMessage'
E_ExpectedStruct == <<44, 32, 101, 120, 112, 101, 99, 116, 101, 100, 32, 115, 116, 114, 117, 99, 116, 32, 78, 97, 116, 105, 118, 101, 77, 101, 115, 115, 97, 103, 101>>
\* 'duplicate field `'
E_DuplicateField == <<100, 117, 112, 108, 105, 99, 97, 116, 101, 32, 102, 105, 101, 108, 100, 32, 96>>
\* 'invalid escape'
E_InvalidEscape == <<105, 110, 118, 97, 108, 105, 100, 32, 101, 115, 99, 97, 112, 101>>
\* 'trailing comma'
E_TrailingComma == <<116, 114, 97, 105, 108, 105, 110, 103, 32, 99, 111, 109, 109, 97>>
\* 'control character (\\u0000-\\u001F) found while parsing a string'
E_ControlCharacter == <<99, 111, 110, 116, 114, 111, 108, 32, 99, 104, 97, 114, 97, 99, 116, 101, 114, 32, 40, 92, 117, 48, 48, 48, 48, 45, 92, 117, 48, 48, 49, 70, 41, 32, 102, 111, 117, 110, 100, 32, 119, 104, 105, 108, 101, 32, 112, 97, 114, 115, 105, 110, 103, 32, 97, 32, 115, 116, 114, 105, 110, 103>>

Err(text) == [ok |-> FALSE, err |-> text]

IsJsonWs(b) == b \in {32, 9, 10, 13}
IsDigit(b) == b >= 48 /\ b <= 57

RECURSIVE SkipWs(_, _)
SkipWs(s, i) == IF i <= Len(s) /\ IsJsonWs(s[i]) THEN SkipWs(s, i + 1) ELSE i

RECURSIVE SkipDigits(_, _)
SkipDigits(s, i) == IF i <= Len(s) /\ IsDigit(s[i]) THEN SkipDigits(s, i + 1) ELSE i

\* the character a simple escape \c stands for, <<>> when c is no simple escape
Unescape(c) ==
    IF c \in {34, 92, 47} THEN <<c>>
    ELSE IF c = 98 THEN <<8>>
    ELSE IF c = 102 THEN <<12>>
    ELSE IF c = 110 THEN <<10>>
    ELSE IF c = 114 THEN <<13>>
    ELSE IF c = 116 THEN <<9>>
    ELSE <<>>

\* the next k items (characters or escapes) of a JSON string from position
\* i: the text decoded, and whether the closing quote was reached ("end"),
\* not yet ("more"), or the string is broken ("error").  Halved like Utf8Run.
RECURSIVE StrRun(_, _, _)
StrRun(s, i, k) ==
    IF k <= 1
    THEN IF i > Len(s) THEN [status |-> "error", err |-> E_EofString]
         ELSE IF s[i] = 34 THEN [status |-> "end", next |-> i + 1, str |-> <<>>]
         ELSE IF s[i] < 32 THEN [status |-> "error", err |-> E_ControlCharacter]
         ELSE IF s[i] = 92
              THEN IF i + 1 > Len(s) THEN [status |-> "error", err |-> E_EofString]
                   ELSE IF Unescape(s[i + 1]) = <<>>
                        THEN [status |-> "error", err |-> E_InvalidEscape]
                   ELSE [status |-> "more", next |-> i + 2,
                         str |-> Unescape(s[i + 1])]
         ELSE [status |-> "more", next |-> i + 1, str |-> <<s[i]>>]
    ELSE The({IF a.status # "more" THEN a
              ELSE The({IF b.status = "error" THEN b
                        ELSE [b EXCEPT !.str = a.str \o @] :
                            b \in {StrRun(s, a.next, k - (k \div 2))}}) :
                  a \in {StrRun(s, i, k \div 2)}})

\* a JSON string whose opening quote is before position i
ParseStr(s, i) ==
    The({IF r.status = "end" THEN [ok |-> TRUE, next |-> r.next, str |-> r.str]
         ELSE Err(r.err) :
             r \in {StrRun(s, i, Len(s) + 2)}})

\* a JSON value at position i: its kind ("string", "null", "boolean",
\* "integer"), its text and the position after it
ParseValue(s, i) ==
    IF i > Len(s) THEN Err(E_EofValue)
    ELSE IF s[i] = 34
         THEN The({IF r.ok
                   THEN [ok |-> TRUE, next |-> r.next, kind |-> "string",
                         text |-> r.str]
                   ELSE r :
                       r \in {ParseStr(s, i + 1)}})
    ELSE IF StartsWithAt(s, i, S_null)
         THEN [ok |-> TRUE, next |-> i + 4, kind |-> "null", text |-> S_null]
    ELSE IF StartsWithAt(s, i, S_true)
         THEN [ok |-> TRUE, next |-> i + 4, kind |-> "boolean", text |-> S_true]
    ELSE IF StartsWithAt(s, i, S_false)
         THEN [ok |-> TRUE, next |-> i + 5, kind |-> "boolean", text |-> S_false]
    ELSE IF IsDigit(s[i])
         THEN The({[ok |-> TRUE, next |-> e, kind |-> "integer",
                    text |-> SubSeq(s, i, e - 1)] :
                       e \in {SkipDigits(s, i)}})
    ELSE Err(E_ExpectedValue)

\* serde's "invalid type: <unexpected>, expected <what>"
InvalidType(val, expected) ==
    Err(E_InvalidType
        \o (IF val.kind = "null" THEN S_null
            ELSE IF val.kind = "integer" THEN <<105, 110, 116, 101, 103, 101, 114, 32, 96>> \o val.text \o <<96>>
            ELSE IF val.kind = "boolean" THEN <<98, 111, 111, 108, 101, 97, 110, 32, 96>> \o val.text \o <<96>>
            ELSE <<115, 116, 114, 105, 110, 103, 32, 34>> \o val.text \o <<34>>)
        \o expected)

\* the fields of NativeMessage not yet seen (main.rs:17-21): each slot holds
\* no value or one
NoFields == [action |-> <<>>, url |-> <<>>, output_path |-> <<>>]

FieldOf(key) ==
    IF key = S_action THEN "action"
    ELSE IF key = S_url THEN "url"
    ELSE IF key = S_output_path THEN "output_path"
    ELSE "ignored"

\* String: a JSON string.  Option<String>: a JSON string or null.
TypedValue(field, val) ==
    IF val.kind = "string"
    THEN [ok |-> TRUE, v |-> IF field = "action" THEN val.text ELSE Some(val.text)]
    ELSE IF val.kind = "null" /\ field # "action" THEN [ok |-> TRUE, v |-> None]
    ELSE InvalidType(val, E_ExpectedString)

\* the struct built at the closing brace: action is required, an absent
\* Option field is None
FinishStruct(fields, next) ==
    IF fields.action = <<>> THEN Err(E_MissingAction)
    ELSE [ok |-> TRUE, next |-> next,
          msg |-> [action |-> fields.action[1],
                   url |-> IF fields.url = <<>> THEN None ELSE fields.url[1],
                   output_path |-> IF fields.output_path = <<>> THEN None
                                   ELSE fields.output_path[1]]]

\* a field's slot filled; a key that names no field is dropped
StoreField(fields, field, v) ==
    IF field = "ignored" THEN fields ELSE [fields EXCEPT ![field] = <<v>>]

\* the members of an object from position i (a key is expected there)
RECURSIVE ParseMembers(_, _, _)
ParseMembers(s, i, fields) ==
    IF i > Len(s) THEN Err(E_EofObject)
    ELSE IF s[i] = 125 THEN Err(E_TrailingComma)
    ELSE IF s[i] # 34 THEN Err(E_KeyMustBeString)
    ELSE
    The({
      IF ~k.ok THEN k
      ELSE The({
        IF field # "ignored" /\ fields[field] # <<>>
        THEN Err(E_DuplicateField \o k.str \o <<96>>)
        ELSE IF c > Len(s) THEN Err(E_EofObject)
        ELSE IF s[c] # 58 THEN Err(E_ExpectedColon)
        ELSE The({
          IF ~val.ok THEN val
          ELSE The({
            IF ~typed.ok THEN typed
            ELSE IF e > Len(s) THEN Err(E_EofObject)
            ELSE IF s[e] = 44
                 THEN ParseMembers(s, SkipWs(s, e + 1),
                                   StoreField(fields, field, typed.v))
            ELSE IF s[e] = 125
                 THEN FinishStruct(StoreField(fields, field, typed.v), e + 1)
            ELSE Err(E_ExpectedCommaOrBrace) :
                typed \in {IF field = "ignored" THEN [ok |-> TRUE, v |-> <<>>]
                           ELSE TypedValue(field, val)},
                e \in {SkipWs(s, val.next)}}) :
              val \in {ParseValue(s, SkipWs(s, c + 1))}}) :
            field \in {FieldOf(k.str)},
            c \in {SkipWs(s, k.next)}}) :
          k \in {ParseStr(s, i + 1)}})

\* serde_json::from_str::<NativeMessage>(&msg) (main.rs:258):
\* [ok |-> TRUE, msg |-> NativeMessage] or [ok |-> FALSE, err |-> text]
FromStr(s) ==
    The({
      IF i > Len(s) THEN Err(E_EofValue)
      ELSE IF s[i] # 123
           THEN The({IF val.ok THEN InvalidType(val, E_ExpectedStruct)
                     ELSE val :
                         val \in {ParseValue(s, i)}})
      ELSE The({
        IF ~r.ok THEN r
        ELSE IF SkipWs(s, r.next) <= Len(s) THEN Err(E_TrailingCharacters)
        ELSE [ok |-> TRUE, msg |-> r.msg] :
            r \in {The({IF first <= Len(s) /\ s[first] = 125
                        THEN FinishStruct(NoFields, first + 1)
                        ELSE ParseMembers(s, first, NoFields) :
                            first \in {SkipWs(s, i + 1)}})}}) :
          i \in {SkipWs(s, 1)}})

(***************************************************************************)
(* serde_json::to_string(&NativeResponse) (main.rs:23-29, main.rs:314).    *)
(***************************************************************************)
HexDigit(n) == IF n < 10 THEN 48 + n ELSE 87 + n

\* one byte of a string inside a JSON string literal
EscapeByte(b) ==
    IF b = 34 THEN <<92, 34>>
    ELSE IF b = 92 THEN <<92, 92>>
    ELSE IF b = 8 THEN <<92, 98>>
    ELSE IF b = 12 THEN <<92, 102>>
    ELSE IF b = 10 THEN <<92, 110>>
    ELSE IF b = 13 THEN <<92, 114>>
    ELSE IF b = 9 THEN <<92, 116>>
    ELSE IF b < 32 THEN <<92, 117, 48, 48, HexDigit(b \div 16), HexDigit(b % 16)>>
    ELSE <<b>>

\* bytes lo..hi of s escaped (the range is halved, see Utf8Run)
RECURSIVE EscapeRange(_, _, _)
EscapeRange(s, lo, hi) ==
    IF lo > hi THEN <<>>
    ELSE IF lo = hi THEN EscapeByte(s[lo])
    ELSE EscapeRange(s, lo, (lo + hi) \div 2)
             \o EscapeRange(s, ((lo + hi) \div 2) + 1, hi)

EscapeJson(s) == EscapeRange(s, 1, Len(s))

\* Option<String> as JSON: null or a string literal
OptionToJson(o) == IF o.some THEN <<34>> \o EscapeJson(o.v) \o <<34>> ELSE S_null

\* {"success":..,"message":..,"filePath":..}, fields in declaration order
ToJson(r) ==
    J_success \o (IF r.success THEN S_true ELSE S_false)
        \o J_message \o OptionToJson(r.message)
        \o J_filePath \o OptionToJson(r.file_path)
        \o <<125>>

(***************************************************************************)
(* The environment: what the peer (the browser) sends and what the         *)
(* yt-dlp tool does.                                                       *)
(***************************************************************************)
\* '{"action":"download","url":"u","output_path":"o"}'
B_DownloadFull == <<123, 34, 97, 99, 116, 105, 111, 110, 34, 58, 34, 100, 111, 119, 110, 108, 111, 97, 100, 34, 44, 34, 117, 114, 108, 34, 58, 34, 117, 34, 44, 34, 111, 117, 116, 112, 117, 116, 95, 112, 97, 116, 104, 34, 58, 34, 111, 34, 125>>
\* '{"action":"download","output_path":"o"}'
B_DownloadNoUrl == <<123, 34, 97, 99, 116, 105, 111, 110, 34, 58, 34, 100, 111, 119, 110, 108, 111, 97, 100, 34, 44, 34, 111, 117, 116, 112, 117, 116, 95, 112, 97, 116, 104, 34, 58, 34, 111, 34, 125>>
\* '{"action":"download","url":"u","output_path":null}'
B_DownloadNullPath == <<123, 34, 97, 99, 116, 105, 111, 110, 34, 58, 34, 100, 111, 119, 110, 108, 111, 97, 100, 34, 44, 34, 117, 114, 108, 34, 58, 34, 117, 34, 44, 34, 111, 117, 116, 112, 117, 116, 95, 112, 97, 116, 104, 34, 58, 110, 117, 108, 108, 125>>
\* '{"action":"download"}'
B_DownloadBare == <<123, 34, 97, 99, 116, 105, 111, 110, 34, 58, 34, 100, 111, 119, 110, 108, 111, 97, 100, 34, 125>>
\* '{"action":"ping","url":"u","output_path":"o"}'
B_Ping == <<123, 34, 97, 99, 116, 105, 111, 110, 34, 58, 34, 112, 105, 110, 103, 34, 44, 34, 117, 114, 108, 34, 58, 34, 117, 34, 44, 34, 111, 117, 116, 112, 117, 116, 95, 112, 97, 116, 104, 34, 58, 34, 111, 34, 125>>
\* '{"action":""}'
B_EmptyAction == <<123, 34, 97, 99, 116, 105, 111, 110, 34, 58, 34, 34, 125>>
\* '{"url":"u","output_path":"o"}'
B_NoAction == <<123, 34, 117, 114, 108, 34, 58, 34, 117, 34, 44, 34, 111, 117, 116, 112, 117, 116, 95, 112, 97, 116, 104, 34, 58, 34, 111, 34, 125>>
\* '{"action":'
B_Truncated == <<123, 34, 97, 99, 116, 105, 111, 110, 34, 58>>
\* '{"action":"\xff"}'
B_BadUtf8 == <<123, 34, 97, 99, 116, 105, 111, 110, 34, 58, 34, 255, 34, 125>>
\* 'a.mkv\n'
O_Moved == <<97, 46, 109, 107, 118, 10>>
\* 'o\n'
O_Same == <<111, 10>>
\* ' \n'
O_Blank == <<32, 10>>
\* 'W'
O_Warn == <<87>>
\* 'ERR'
O_Err == <<69, 82, 82>>
\* 'E\xff'
O_ErrBad == <<69, 255>>
\* 'program not found'
IO_NotFound == <<112, 114, 111, 103, 114, 97, 109, 32, 110, 111, 116, 32, 102, 111, 117, 110, 100>>

\* message bodies the peer sends
Bodies ==
    {B_DownloadFull, B_DownloadNoUrl, B_DownloadNullPath, B_DownloadBare,
     B_Ping, B_EmptyAction, B_NoAction, B_Truncated, B_BadUtf8}

\* a frame as the peer writes it: the body's length as 4 bytes in native
\* byte order, then the body
PeerFrame(body) == ToNeBytes(Len(body)) \o body

\* the places where the peer stops inside a frame when it goes away
CutPoints(frame) == {n \in 1..(Len(frame) - 1) : n <= 5 \/ n = Len(frame) - 1}

\* what one run of the tool does: its exit code and what it prints
ToolRuns ==
    {[code |-> 0, stdout |-> O_Moved, stderr |-> <<>>],
     [code |-> 0, stdout |-> O_Same,  stderr |-> O_Warn],
     [code |-> 0, stdout |-> <<>>,    stderr |-> O_Warn],
     [code |-> 0, stdout |-> O_Blank, stderr |-> <<>>],
     [code |-> 1, stdout |-> <<>>,    stderr |-> O_Err],
     [code |-> 1, stdout |-> O_Moved, stderr |-> O_ErrBad]}

\* 'yt-dlp', the program started (main.rs:136)
S_YtDlp == <<121, 116, 45, 100, 108, 112>>
\* 'p\n', a progress line
O_Progress == <<112, 10>>
\* 'ERROR: u', a diagnostic longer than a pipe holds
O_Long == <<69, 82, 82, 79, 82, 58, 32, 117>>

\* what one run of the tool does when test_download starts it (--progress,
\* main.rs:184-189)
TestRuns ==
    {[code |-> 0, stdout |-> O_Progress, stderr |-> <<>>],
     [code |-> 0, stdout |-> O_Progress, stderr |-> O_Warn],
     [code |-> 1, stdout |-> <<>>,       stderr |-> O_Long]}

\* the io::Error texts of a failed spawn
SpawnErrors == {IO_NotFound}

NoRun == [code |-> 0, stdout |-> <<>>, stderr |-> <<>>]
NoResponse == [success |-> FALSE, message |-> None, file_path |-> None]
NoCur == [parsed |-> FALSE, req |-> Err(<<>>), spawn |-> "none",
          returned |-> FALSE, run |-> NoRun, end |-> "running"]
NoStats == [frames |-> 0, discarded |-> 0, responses |-> 0, spawns |-> 0,
            reaps |-> 0]
NoCmd == [call |-> "none", ok |-> FALSE, value |-> FALSE,
          prev |-> "none", prevOk |-> FALSE]

Platforms ==
    {[os |-> "windows", endian |-> "little"],
     [os |-> "other", endian |-> "little"],
     [os |-> "other", endian |-> "big"]}

\* extension ids the GUI passes to register_host
ExtensionIds == {"ext1", "ext2"}

(***************************************************************************)
(* main (main.rs:342-377): the mode the process runs in.                   *)
(***************************************************************************)
SelectMode(nativeFlag, stdinIsPipe, targetOs) ==
    IF nativeFlag THEN "native"
    ELSE IF targetOs = "windows" /\ stdinIsPipe THEN "native"
    ELSE "gui"

Init ==
    /\ \E p \in Platforms : os = p.os /\ endian = p.endian
    /\ \E nativeFlag \in BOOLEAN, stdinIsPipe \in BOOLEAN :
           mode = SelectMode(nativeFlag, stdinIsPipe, os)
    /\ stdin = <<>>
    /\ stdinClosed = FALSE
    /\ sent = 0
    /\ cut = FALSE
    /\ pc = "read_len"
    /\ message_length = 0
    /\ message_buffer = <<>>
    /\ response = NoResponse
    /\ response_json = <<>>
    /\ outBuf = <<>>
    /\ wire = <<>>
    /\ children = <<>>
    /\ capOut = <<>>
    /\ capErr = <<>>
    /\ cur = NoCur
    /\ stats = NoStats
    /\ registry \in {[parent |-> FALSE, host |-> FALSE, value |-> None],
                     [parent |-> TRUE, host |-> FALSE, value |-> None]}
    /\ manifest = None
    /\ lastCmd = NoCmd
    /\ gui_pc = "idle"

loopVars == <<pc, message_length, message_buffer, response, response_json,
              outBuf, wire, capOut, capErr, cur, stats>>
guiVars == <<registry, manifest, lastCmd, gui_pc>>
platformVars == <<os, endian, mode>>

(***************************************************************************)
(* The peer.                                                               *)
(***************************************************************************)
\* the peer writes one complete frame
PeerSend ==
    /\ mode = "native" /\ ~stdinClosed /\ sent < MaxFrames
    /\ \E body \in Bodies : stdin' = stdin \o PeerFrame(body)
    /\ sent' = sent + 1
    /\ UNCHANGED <<stdinClosed, cut, children, loopVars, guiVars, platformVars>>

\* the peer goes away in the middle of a frame
PeerSendTruncated ==
    /\ mode = "native" /\ ~stdinClosed /\ sent < MaxFrames
    /\ \E n \in CutPoints(PeerFrame(B_DownloadFull)) :
           stdin' = stdin \o SubSeq(PeerFrame(B_DownloadFull), 1, n)
    /\ sent' = sent + 1
    /\ stdinClosed' = TRUE
    /\ cut' = TRUE
    /\ UNCHANGED <<children, loopVars, guiVars, platformVars>>

\* the peer closes the stream between frames
PeerClose ==
    /\ mode = "native" /\ ~stdinClosed
    /\ stdinClosed' = TRUE
    /\ UNCHANGED <<stdin, sent, cut, children, loopVars, guiVars, platformVars>>

(***************************************************************************)
(* download_video (main.rs:136-174).                                       *)
(***************************************************************************)
\* Result<String, String>
Ok(x) == [ok |-> TRUE, v |-> x]
Fail(x) == [ok |-> FALSE, v |-> x]

\* the child started by command.output() (main.rs:137-156): its arguments,
\* what it still has to print, its two pipes
NewChild(url, output_path, run) ==
    [state |-> "running", code |-> run.code,
     args |-> [url |-> url, output_path |-> output_path,
               no_window |-> (os = "windows")],
     out |-> run.stdout, err |-> run.stderr,
     pipeOut |-> <<>>, pipeErr |-> <<>>]

\* what command.output() gives back (main.rs:155-156): an io::Error when
\* the tool could not be started, else the Output of the finished child
SpawnError(e) == [started |-> FALSE, error |-> e, code |-> 0,
                  stdout |-> <<>>, stderr |-> <<>>]
Output(code, stdout, stderr) == [started |-> TRUE, error |-> <<>>,
                                 code |-> code, stdout |-> stdout,
                                 stderr |-> stderr]

\* download_video taking whatever the tool printed as the path
download_video_unchecked(url, output_path, output) ==
    IF ~output.started THEN Fail(S_FailedToExecute \o output.error)
    ELSE IF output.code = 0
    THEN Ok(Trim(FromUtf8Lossy(output.stdout)))
    ELSE Fail(S_YtDlpFailed \o FromUtf8Lossy(output.stderr))

\* download_video reporting a tool that could not be started in the words
\* it uses for a tool that failed
download_video_one_message(url, output_path, output) ==
    IF ~output.started THEN Fail(S_YtDlpFailed \o output.error)
    ELSE IF output.code = 0
    THEN LET file_path == Trim(FromUtf8Lossy(output.stdout)) IN
         IF file_path = <<>> THEN Fail(S_NoFilePath) ELSE Ok(file_path)
    ELSE Fail(S_YtDlpFailed \o FromUtf8Lossy(output.stderr))

\* download_video answering with the caller's destination instead of the
\* path the tool printed (as test_download does, main.rs:220-223)
download_video_caller_path(url, output_path, output) ==
    IF ~output.started THEN Fail(S_FailedToExecute \o output.error)
    ELSE IF output.code = 0 THEN Ok(output_path)
    ELSE Fail(S_YtDlpFailed \o FromUtf8Lossy(output.stderr))

\* download_video reporting the tool's stdout instead of its stderr
download_video_wrong_stream(url, output_path, output) ==
    IF ~output.started THEN Fail(S_FailedToExecute \o output.error)
    ELSE IF output.code = 0
    THEN LET file_path == Trim(FromUtf8Lossy(output.stdout)) IN
         IF file_path = <<>> THEN Fail(S_NoFilePath) ELSE Ok(file_path)
    ELSE Fail(S_YtDlpFailed \o FromUtf8Lossy(output.stdout))

\* main.rs:136-174: the Result of download_video, given what
\* command.output() gave back
download_video(url, output_path, output) ==
    IF ~output.started THEN Fail(S_FailedToExecute \o output.error)
    ELSE IF output.code = 0
    THEN LET file_path == Trim(FromUtf8Lossy(output.stdout)) IN
         IF file_path = <<>> THEN Fail(S_NoFilePath) ELSE Ok(file_path)
    ELSE Fail(S_YtDlpFailed \o FromUtf8Lossy(output.stderr))

(***************************************************************************)
(* handle_native_messaging (main.rs:231-340).                              *)
(***************************************************************************)
\* Route checking only url before it starts the download
RouteUrlOnly(msg) ==
    IF msg.action = S_download
    THEN IF msg.url.some THEN "download" ELSE "missing"
    ELSE "unknown"

\* Route starting a download whenever both parameters are there
RouteIgnoresAction(msg) ==
    IF msg.url.some /\ msg.output_path.some THEN "download"
    ELSE IF msg.action = S_download THEN "missing"
    ELSE "unknown"

\* main.rs:260-301: the branch a parsed NativeMessage takes
Route(msg) ==
    IF msg.action = S_download
    THEN IF msg.url.some /\ msg.output_path.some THEN "download" ELSE "missing"
    ELSE "unknown"

\* DownloadResponse leaving filePath out of a success
DownloadResponseNoPath(result) ==
    IF result.ok
    THEN [success |-> TRUE, message |-> Some(S_DownloadComplete),
          file_path |-> None]
    ELSE [success |-> FALSE, message |-> Some(result.v), file_path |-> None]

\* main.rs:267-282
DownloadResponse(result) ==
    IF result.ok
    THEN [success |-> TRUE, message |-> Some(S_DownloadComplete),
          file_path |-> Some(result.v)]
    ELSE [success |-> FALSE, message |-> Some(result.v), file_path |-> None]

\* main.rs:286-290
MissingParamsResponse ==
    [success |-> FALSE, message |-> Some(S_MissingParams), file_path |-> None]

\* main.rs:295-299
UnknownActionResponse ==
    [success |-> FALSE, message |-> Some(S_UnknownAction), file_path |-> None]

\* main.rs:305-309
ParseErrorResponse(e) ==
    [success |-> FALSE, message |-> Some(S_FailedToParse \o e),
     file_path |-> None]

\* the loop leaves through break (main.rs:239, 246, 322, 328, 333)
Break(why) ==
    /\ pc' = "done"
    /\ cur' = [cur EXCEPT !.end = why]

\* main.rs:236-241: read_exact of the 4 length bytes blocks until they are
\* there or the stream ends
ReadLength ==
    /\ mode = "native" /\ pc = "read_len"
    /\ \/ /\ Len(stdin) >= 4
          /\ message_length' = FromNeBytes(SubSeq(stdin, 1, 4))
          /\ stdin' = Drop(stdin, 4)
          /\ pc' = "read_body"
          /\ UNCHANGED cur
       \/ /\ Len(stdin) < 4 /\ stdinClosed
          /\ stdin' = <<>>
          /\ Break("eof_length")
          /\ UNCHANGED message_length
    /\ UNCHANGED <<stdinClosed, sent, cut, message_buffer, response,
                   response_json, outBuf, wire, children, capOut, capErr,
                   stats, guiVars, platformVars>>

\* ReadBody taking what is there when the stream ends early (read instead of
\* read_exact)
ReadBodyShort ==
    /\ mode = "native" /\ pc = "read_body"
    /\ \/ Len(stdin) >= message_length
       \/ stdinClosed
    /\ message_buffer' = SubSeq(stdin, 1, Min(message_length, Len(stdin)))
    /\ stdin' = Drop(stdin, Min(message_length, Len(stdin)))
    /\ pc' = "dispatch"
    /\ stats' = [stats EXCEPT !.frames = @ + 1]
    /\ UNCHANGED <<stdinClosed, sent, cut, message_length, response,
                   response_json, outBuf, wire, children, capOut, capErr,
                   cur, guiVars, platformVars>>

\* main.rs:243-247: read_exact of the body
ReadBody ==
    /\ mode = "native" /\ pc = "read_body"
    /\ \/ /\ Len(stdin) >= message_length
          /\ message_buffer' = SubSeq(stdin, 1, message_length)
          /\ stdin' = Drop(stdin, message_length)
          /\ pc' = "dispatch"
          /\ stats' = [stats EXCEPT !.frames = @ + 1]
          /\ UNCHANGED cur
       \/ /\ Len(stdin) < message_length /\ stdinClosed
          /\ stdin' = <<>>
          /\ Break("eof_body")
          /\ UNCHANGED <<message_buffer, stats>>
    /\ UNCHANGED <<stdinClosed, sent, cut, message_length, response,
                   response_json, outBuf, wire, children, capOut, capErr,
                   guiVars, platformVars>>

\* main.rs:255-311: parse and route the text of a message; a download
\* request with both parameters starts the tool (main.rs:266, 155-157)
HandleText ==
    LET req == FromStr(message_buffer)
        seen == [cur EXCEPT !.parsed = TRUE, !.req = req]
    IN
    /\ UNCHANGED <<message_length, message_buffer>>
    /\ IF ~req.ok
       THEN /\ response' = ParseErrorResponse(req.err)
            /\ pc' = "write_len"
            /\ cur' = seen
            /\ UNCHANGED <<children, stats>>
       ELSE IF Route(req.msg) = "unknown"
       THEN /\ response' = UnknownActionResponse
            /\ pc' = "write_len"
            /\ cur' = seen
            /\ UNCHANGED <<children, stats>>
       ELSE IF Route(req.msg) = "missing"
       THEN /\ response' = MissingParamsResponse
            /\ pc' = "write_len"
            /\ cur' = seen
            /\ UNCHANGED <<children, stats>>
       ELSE \/ \E e \in SpawnErrors :
                 /\ response' = DownloadResponse(download_video(
                        req.msg.url.v, req.msg.output_path.v, SpawnError(e)))
                 /\ pc' = "write_len"
                 /\ cur' = [seen EXCEPT !.spawn = "failed"]
                 /\ UNCHANGED <<children, stats>>
            \/ \E run \in ToolRuns :
                 /\ children' = Append(children,
                        NewChild(req.msg.url.v, req.msg.output_path.v, run))
                 /\ pc' = "output"
                 /\ cur' = [seen EXCEPT !.spawn = "spawned", !.run = run]
                 /\ stats' = [stats EXCEPT !.spawns = @ + 1]
                 /\ UNCHANGED response

\* Dispatch answering a body that is not UTF-8 with a parse failure
DispatchAnswersAll ==
    /\ mode = "native" /\ pc = "dispatch"
    /\ IF ~IsUtf8(message_buffer)
       THEN /\ response' = ParseErrorResponse(E_ExpectedValue)
            /\ pc' = "write_len"
            /\ cur' = [cur EXCEPT !.parsed = TRUE]
            /\ UNCHANGED <<message_length, message_buffer, children, stats>>
       ELSE HandleText
    /\ UNCHANGED <<stdin, stdinClosed, sent, cut, response_json, outBuf, wire,
                   capOut, capErr, guiVars, platformVars>>

\* main.rs:249-311: decode the body; one that is not UTF-8 is dropped
\* (main.rs:252, continue), any other is parsed and routed
Dispatch ==
    /\ mode = "native" /\ pc = "dispatch"
    /\ IF ~IsUtf8(message_buffer)
       THEN /\ pc' = "read_len"
            /\ message_length' = 0
            /\ message_buffer' = <<>>
            /\ stats' = [stats EXCEPT !.discarded = @ + 1]
            /\ UNCHANGED <<response, cur, children>>
       ELSE HandleText
    /\ UNCHANGED <<stdin, stdinClosed, sent, cut, response_json, outBuf, wire,
                   capOut, capErr, guiVars, platformVars>>

\* command.output() (main.rs:155-156) reads both pipes of its child while
\* the child runs
HostDrainOut ==
    /\ mode = "native" /\ pc = "output" /\ children # <<>>
    /\ LET i == Len(children) IN
       /\ children[i].pipeOut # <<>>
       /\ capOut' = capOut \o children[i].pipeOut
       /\ children' = [children EXCEPT ![i].pipeOut = <<>>]
    /\ UNCHANGED <<stdin, stdinClosed, sent, cut, pc, message_length,
                   message_buffer, response, response_json, outBuf, wire,
                   capErr, cur, stats, guiVars, platformVars>>

HostDrainErr ==
    /\ mode = "native" /\ pc = "output" /\ children # <<>>
    /\ LET i == Len(children) IN
       /\ children[i].pipeErr # <<>>
       /\ capErr' = capErr \o children[i].pipeErr
       /\ children' = [children EXCEPT ![i].pipeErr = <<>>]
    /\ UNCHANGED <<stdin, stdinClosed, sent, cut, pc, message_length,
                   message_buffer, response, response_json, outBuf, wire,
                   capOut, cur, stats, guiVars, platformVars>>

\* the tool started and not waited for (spawn() in place of output()): the
\* loop goes on with what it has collected so far
OutputReturnNoWait ==
    /\ mode = "native" /\ pc = "output" /\ children # <<>>
    /\ LET c == children[Len(children)] IN
       response' = DownloadResponse(download_video(
           c.args.url, c.args.output_path, Output(0, capOut, capErr)))
    /\ capOut' = <<>>
    /\ capErr' = <<>>
    /\ cur' = [cur EXCEPT !.returned = TRUE]
    /\ pc' = "write_len"
    /\ UNCHANGED <<stdin, stdinClosed, sent, cut, message_length,
                   message_buffer, response_json, outBuf, wire, children,
                   stats, guiVars, platformVars>>

\* OutputReturn with the collected output kept for the next request
OutputReturnKeepsCapture ==
    /\ mode = "native" /\ pc = "output" /\ children # <<>>
    /\ LET c == children[Len(children)] IN
       /\ c.state = "exited" /\ c.pipeOut = <<>> /\ c.pipeErr = <<>>
       /\ response' = DownloadResponse(download_video(
              c.args.url, c.args.output_path, Output(c.code, capOut, capErr)))
    /\ children' = SubSeq(children, 1, Len(children) - 1)
    /\ cur' = [cur EXCEPT !.returned = TRUE]
    /\ stats' = [stats EXCEPT !.reaps = @ + 1]
    /\ pc' = "write_len"
    /\ UNCHANGED <<stdin, stdinClosed, sent, cut, message_length,
                   message_buffer, response_json, outBuf, wire, capOut,
                   capErr, guiVars, platformVars>>

\* command.output() returns (main.rs:155-157): both pipes are at end of
\* file and the child has been waited for; download_video maps the Output
\* (main.rs:159-173) and the loop builds the response (main.rs:266-283)
OutputReturn ==
    /\ mode = "native" /\ pc = "output" /\ children # <<>>
    /\ LET c == children[Len(children)] IN
       /\ c.state = "exited" /\ c.pipeOut = <<>> /\ c.pipeErr = <<>>
       /\ response' = DownloadResponse(download_video(
              c.args.url, c.args.output_path, Output(c.code, capOut, capErr)))
    /\ children' = SubSeq(children, 1, Len(children) - 1)
    /\ capOut' = <<>>
    /\ capErr' = <<>>
    /\ cur' = [cur EXCEPT !.returned = TRUE]
    /\ stats' = [stats EXCEPT !.reaps = @ + 1]
    /\ pc' = "write_len"
    /\ UNCHANGED <<stdin, stdinClosed, sent, cut, message_length,
                   message_buffer, response_json, outBuf, wire, guiVars,
                   platformVars>>

\* main.rs:313-323: serialise the response and write its length
WriteLength ==
    /\ mode = "native" /\ pc = "write_len"
    /\ response_json' = ToJson(response)
    /\ \/ /\ outBuf' = outBuf \o ToNeBytes(Len(response_json'))
          /\ pc' = "write_body"
          /\ UNCHANGED cur
       \/ /\ Break("write_length")
          /\ UNCHANGED outBuf
    /\ UNCHANGED <<stdin, stdinClosed, sent, cut, message_length,
                   message_buffer, response, wire, children, capOut, capErr,
                   stats, guiVars, platformVars>>

\* WriteContent going on to the flush when the write failed
WriteContentGoesOn ==
    /\ mode = "native" /\ pc = "write_body"
    /\ \/ outBuf' = outBuf \o response_json
       \/ UNCHANGED outBuf
    /\ pc' = "flush"
    /\ UNCHANGED <<stdin, stdinClosed, sent, cut, message_length,
                   message_buffer, response, response_json, wire, children,
                   capOut, capErr, cur, stats, guiVars, platformVars>>

\* main.rs:325-329
WriteContent ==
    /\ mode = "native" /\ pc = "write_body"
    /\ \/ /\ outBuf' = outBuf \o response_json
          /\ pc' = "flush"
          /\ UNCHANGED cur
       \/ /\ Break("write_content")
          /\ UNCHANGED outBuf
    /\ UNCHANGED <<stdin, stdinClosed, sent, cut, message_length,
                   message_buffer, response, response_json, wire, children,
                   capOut, capErr, stats, guiVars, platformVars>>

\* Flush leaving the loop after the response was sent
FlushAndStop ==
    /\ mode = "native" /\ pc = "flush"
    /\ wire' = wire \o outBuf
    /\ outBuf' = <<>>
    /\ stats' = [stats EXCEPT !.responses = @ + 1]
    /\ Break("flush")
    /\ UNCHANGED <<stdin, stdinClosed, sent, cut, children, capOut, capErr,
                   response, response_json, message_length, message_buffer,
                   guiVars, platformVars>>

\* main.rs:331-337: flush, then the next iteration starts with fresh locals
Flush ==
    /\ mode = "native" /\ pc = "flush"
    /\ \/ /\ wire' = wire \o outBuf
          /\ outBuf' = <<>>
          /\ pc' = "read_len"
          /\ stats' = [stats EXCEPT !.responses = @ + 1]
          /\ cur' = NoCur
          /\ response' = NoResponse
          /\ response_json' = <<>>
          /\ message_length' = 0
          /\ message_buffer' = <<>>
       \/ /\ Break("flush")
          /\ UNCHANGED <<wire, outBuf, stats, response, response_json,
                         message_length, message_buffer>>
    /\ UNCHANGED <<stdin, stdinClosed, sent, cut, children, capOut, capErr,
                   guiVars, platformVars>>

(***************************************************************************)
(* The child process: it prints to its pipes, blocking while a pipe is     *)
(* full, and exits when it has printed everything.                         *)
(***************************************************************************)
ChildWriteOut ==
    /\ \E i \in 1..Len(children) :
           LET c == children[i]
               n == Min(Len(c.out), PipeCap - Len(c.pipeOut))
           IN
           /\ c.state = "running" /\ c.out # <<>> /\ n > 0
           /\ children' = [children EXCEPT
                  ![i].pipeOut = @ \o SubSeq(c.out, 1, n),
                  ![i].out = Drop(@, n)]
    /\ UNCHANGED <<stdin, stdinClosed, sent, cut, loopVars, guiVars,
                   platformVars>>

ChildWriteErr ==
    /\ \E i \in 1..Len(children) :
           LET c == children[i]
               n == Min(Len(c.err), PipeCap - Len(c.pipeErr))
           IN
           /\ c.state = "running" /\ c.err # <<>> /\ n > 0
           /\ children' = [children EXCEPT
                  ![i].pipeErr = @ \o SubSeq(c.err, 1, n),
                  ![i].err = Drop(@, n)]
    /\ UNCHANGED <<stdin, stdinClosed, sent, cut, loopVars, guiVars,
                   platformVars>>

\* a tool that never exits
ChildHangs == FALSE /\ UNCHANGED vars

ChildExit ==
    /\ \E i \in 1..Len(children) :
           /\ children[i].state = "running"
           /\ children[i].out = <<>> /\ children[i].err = <<>>
           /\ children' = [children EXCEPT ![i].state = "exited"]
    /\ UNCHANGED <<stdin, stdinClosed, sent, cut, loopVars, guiVars,
                   platformVars>>

(***************************************************************************)
(* The GUI commands (main.rs:31-133).  A command runs to completion; the   *)
(* operating system may refuse any step that writes.                       *)
(***************************************************************************)
\* main.rs:65-73, the manifest written for an extension id
ManifestContent(extension_id) ==
    Some([name |-> "com.imgvault.nativehost",
          type |-> "stdio",
          allowed_origins |-> <<"chrome-extension://", extension_id, "/">>])

\* what fs::write leaves when it fails after creating the file
TruncatedManifest == Some([name |-> "", type |-> "", allowed_origins |-> <<>>])

\* the registry value: the path of manifest.json (main.rs:85)
ManifestPath == Some("manifest.json")

RegisterFailures == {"none", "exe", "open_file", "write", "create", "set"}
UnregisterFailures == {"none", "open", "delete", "exe", "remove"}

\* check_registration answering as on a platform without the registry
check_registration_stub == FALSE

\* main.rs:33-47
check_registration ==
    IF os = "windows" THEN registry.host ELSE FALSE

\* main.rs:51-93: the result and the state register_host leaves when the
\* step `fail` is refused
register_host(extension_id, fail) ==
    IF os # "windows"
    THEN [ok |-> FALSE, registry |-> registry, manifest |-> manifest]
    ELSE IF fail = "exe"
    THEN [ok |-> FALSE, registry |-> registry, manifest |-> manifest]
    ELSE IF fail = "open_file"
    THEN [ok |-> FALSE, registry |-> registry, manifest |-> manifest]
    ELSE IF fail = "write"
    THEN [ok |-> FALSE, registry |-> registry, manifest |-> TruncatedManifest]
    ELSE IF fail = "create"
    THEN [ok |-> FALSE, registry |-> registry,
          manifest |-> ManifestContent(extension_id)]
    ELSE IF fail = "set"
    THEN [ok |-> FALSE,
          registry |-> [registry EXCEPT !.parent = TRUE, !.host = TRUE],
          manifest |-> ManifestContent(extension_id)]
    ELSE [ok |-> TRUE,
          registry |-> [parent |-> TRUE, host |-> TRUE, value |-> ManifestPath],
          manifest |-> ManifestContent(extension_id)]

\* unregister_host removing manifest.json before it deletes the key
unregister_host_manifest_first(fail) ==
    IF os # "windows"
    THEN [ok |-> FALSE, registry |-> registry, manifest |-> manifest]
    ELSE IF fail = "exe"
    THEN [ok |-> FALSE, registry |-> registry, manifest |-> manifest]
    ELSE IF manifest.some /\ fail = "remove"
    THEN [ok |-> FALSE, registry |-> registry, manifest |-> manifest]
    ELSE IF ~registry.parent \/ fail = "open"
    THEN [ok |-> FALSE, registry |-> registry, manifest |-> None]
    ELSE IF ~registry.host \/ fail = "delete"
    THEN [ok |-> FALSE, registry |-> registry, manifest |-> None]
    ELSE [ok |-> TRUE,
          registry |-> [registry EXCEPT !.host = FALSE, !.value = None],
          manifest |-> None]

\* main.rs:97-133
unregister_host(fail) ==
    IF os # "windows"
    THEN [ok |-> FALSE, registry |-> registry, manifest |-> manifest]
    ELSE IF ~registry.parent \/ fail = "open"
    THEN [ok |-> FALSE, registry |-> registry, manifest |-> manifest]
    ELSE IF ~registry.host \/ fail = "delete"
    THEN [ok |-> FALSE, registry |-> registry, manifest |-> manifest]
    ELSE
    LET deleted == [registry EXCEPT !.host = FALSE, !.value = None] IN
    IF fail = "exe"
    THEN [ok |-> FALSE, registry |-> deleted, manifest |-> manifest]
    ELSE IF manifest.some /\ fail = "remove"
    THEN [ok |-> FALSE, registry |-> deleted, manifest |-> manifest]
    ELSE [ok |-> TRUE, registry |-> deleted, manifest |-> None]

CheckRegistration ==
    /\ mode = "gui" /\ gui_pc = "idle"
    /\ lastCmd' = [lastCmd EXCEPT !.call = "check_registration", !.ok = TRUE,
                                   !.value = check_registration]
    /\ UNCHANGED <<stdin, stdinClosed, sent, cut, children, loopVars,
                   registry, manifest, gui_pc, platformVars>>

RegisterHost ==
    /\ mode = "gui" /\ gui_pc = "idle"
    /\ \E extension_id \in ExtensionIds, fail \in RegisterFailures :
           LET r == register_host(extension_id, fail) IN
           /\ registry' = r.registry
           /\ manifest' = r.manifest
           /\ lastCmd' = [call |-> "register_host", ok |-> r.ok,
                          value |-> FALSE,
                          prev |-> "register_host", prevOk |-> r.ok]
    /\ UNCHANGED <<stdin, stdinClosed, sent, cut, children, loopVars,
                   gui_pc, platformVars>>

UnregisterHost ==
    /\ mode = "gui" /\ gui_pc = "idle"
    /\ \E fail \in UnregisterFailures :
           LET r == unregister_host(fail) IN
           /\ registry' = r.registry
           /\ manifest' = r.manifest
           /\ lastCmd' = [call |-> "unregister_host", ok |-> r.ok,
                          value |-> FALSE,
                          prev |-> "unregister_host", prevOk |-> r.ok]
    /\ UNCHANGED <<stdin, stdinClosed, sent, cut, children, loopVars,
                   gui_pc, platformVars>>

(***************************************************************************)
(* test_download (main.rs:178-228), a GUI command.  It runs on the GUI's   *)
(* thread: no other command runs until it returns.                         *)
(***************************************************************************)
\* main.rs:183-202: the command line is built and the child is spawned with
\* both output streams piped
TestDownloadStart ==
    /\ mode = "gui" /\ gui_pc = "idle"
    /\ \E url \in {<<117>>}, output_path \in {<<111>>}, hide_window \in BOOLEAN :
          \/ /\ \E run \in TestRuns :
                    children' = Append(children,
                        [NewChild(url, output_path, run) EXCEPT
                             !.args.no_window = (os = "windows" /\ hide_window)])
             /\ gui_pc' = "read_stdout"
             /\ lastCmd' = [lastCmd EXCEPT !.call = "test_download",
                                            !.ok = FALSE, !.value = FALSE]
          \/ /\ \E e \in SpawnErrors :
                    lastCmd' = [lastCmd EXCEPT !.call = "test_download",
                                               !.ok = FALSE, !.value = FALSE]
             /\ UNCHANGED <<children, gui_pc>>
    /\ UNCHANGED <<stdin, stdinClosed, sent, cut, loopVars, registry, manifest,
                   platformVars>>

\* main.rs:205-212: the lines of the child's stdout are read until end of
\* file; its stderr is piped and not read
TestReadStdout ==
    /\ mode = "gui" /\ gui_pc = "read_stdout"
    /\ LET i == Len(children) IN
       /\ children[i].pipeOut # <<>>
       /\ children' = [children EXCEPT ![i].pipeOut = <<>>]
    /\ UNCHANGED <<stdin, stdinClosed, sent, cut, loopVars, guiVars,
                   platformVars>>

\* main.rs:212-227: stdout is at end of file, child.wait() reaps the child
\* and the exit status decides the result
TestDownloadReturn ==
    /\ mode = "gui" /\ gui_pc = "read_stdout"
    /\ LET c == children[Len(children)] IN
       /\ c.state = "exited" /\ c.pipeOut = <<>>
       /\ lastCmd' = [lastCmd EXCEPT !.call = "test_download",
                                      !.ok = (c.code = 0), !.value = (c.code = 0)]
    /\ children' = SubSeq(children, 1, Len(children) - 1)
    /\ gui_pc' = "idle"
    /\ UNCHANGED <<stdin, stdinClosed, sent, cut, loopVars, registry, manifest,
                   platformVars>>

(***************************************************************************)
(* The specification.                                                      *)
(***************************************************************************)
Next ==
    \/ PeerSend
    \/ PeerSendTruncated
    \/ PeerClose
    \/ ReadLength
    \/ ReadBody
    \/ Dispatch
    \/ HostDrainOut
    \/ HostDrainErr
    \/ OutputReturn
    \/ WriteLength
    \/ WriteContent
    \/ Flush
    \/ ChildWriteOut
    \/ ChildWriteErr
    \/ ChildExit
    \/ CheckRegistration
    \/ RegisterHost
    \/ UnregisterHost
    \/ TestDownloadStart
    \/ TestReadStdout
    \/ TestDownloadReturn

Spec == Init /\ [][Next]_vars

(***************************************************************************)
(* Properties.                                                             *)
(***************************************************************************)
\* the response of this iteration has been built and is being sent
Responding == mode = "native" /\ pc \in {"write_len", "write_body", "flush"}

\* the frame that carries response r on stdout
ResponseFrame(r) == ToNeBytes(Len(ToJson(r))) \o ToJson(r)

\* at the flush, what write_all accepted is the frame of response r
Written(r) == pc = "flush" => outBuf = ResponseFrame(r)

\* the request of this iteration parsed as a NativeMessage
Parsed == cur.parsed /\ cur.req.ok

\* the path the tool reported: its stdout as text, without the surrounding
\* whitespace (the line terminator)
ReportedPath == Trim(FromUtf8Lossy(cur.run.stdout))

\* C1: a "download" request without url or without output_path (or without
\* both) is answered success=false, "Missing url or output_path", filePath
\* null, and no subprocess is spawned while it is processed.
C1_MissingParameter ==
    (/\ Responding /\ Parsed
     /\ cur.req.msg.action = S_download
     /\ ~cur.req.msg.url.some \/ ~cur.req.msg.output_path.some)
    => /\ response = [success |-> FALSE, message |-> Some(S_MissingParams),
                      file_path |-> None]
       /\ cur.spawn = "none"
       /\ children = <<>>
       /\ Written(response)

C1_Witness ==
    /\ pc = "flush" /\ Parsed
    /\ message_buffer = B_DownloadNullPath
    /\ cur.req.msg.url.some /\ ~cur.req.msg.output_path.some
    /\ response.message = Some(S_MissingParams)

\* C2: a request whose action is not "download" is answered success=false,
\* "Unknown action", whatever its url and output_path are, and download_video
\* is not invoked: no subprocess is spawned for it.
C2_UnknownAction ==
    (Responding /\ Parsed /\ cur.req.msg.action # S_download)
    => /\ response = [success |-> FALSE, message |-> Some(S_UnknownAction),
                      file_path |-> None]
       /\ cur.spawn = "none"
       /\ children = <<>>
       /\ Written(response)

C2_Witness ==
    /\ pc = "flush" /\ Parsed
    /\ message_buffer = B_Ping
    /\ cur.req.msg.url.some /\ cur.req.msg.output_path.some
    /\ response.message = Some(S_UnknownAction)

\* C3: when the tool exits with status zero and reports a non-empty path P,
\* the response is {success:true, message:"Download complete", filePath:P}:
\* the path the tool reported, also when it differs from the request's
\* output_path.
C3_ReportedPath ==
    (/\ Responding /\ cur.returned
     /\ cur.run.code = 0 /\ ReportedPath # <<>>)
    => /\ response = [success |-> TRUE, message |-> Some(S_DownloadComplete),
                      file_path |-> Some(ReportedPath)]
       /\ Written(response)

C3_Witness ==
    /\ pc = "flush" /\ cur.returned /\ cur.run.code = 0
    /\ cur.run.stdout = O_Moved
    /\ response.file_path = Some(<<97, 46, 109, 107, 118>>)
    /\ cur.req.msg.output_path = Some(<<111>>)

\* C4: when the tool exits with a non-zero status and stderr text E, the
\* response is success=false, filePath null, with a message that contains E,
\* whatever the tool printed on stdout.
C4_ToolFailure ==
    (Responding /\ cur.returned /\ cur.run.code # 0)
    => /\ ~response.success
       /\ response.file_path = None
       /\ response.message.some
       /\ Contains(response.message.v, FromUtf8Lossy(cur.run.stderr))
       /\ Written(response)

C4_Witness ==
    /\ pc = "flush" /\ cur.returned /\ cur.run.code = 1
    /\ cur.run.stdout = O_Moved
    /\ ~response.success
    /\ Contains(response.message.v, <<69>>)

\* C5: every response the loop sends has filePath set when success is true
\* and message set when success is false.
C5_ResponseShape ==
    Responding
    => /\ response.success => response.file_path.some
       /\ ~response.success => response.message.some
       /\ Written(response)

C5_Witness ==
    /\ pc = "flush" /\ response.success /\ response.file_path.some
    /\ stats.responses = 1
    /\ wire = ResponseFrame(MissingParamsResponse)

\* the request of this iteration failed in one of the per-request ways: JSON
\* parse failure, unknown action, missing parameter, spawn failure, non-zero
\* exit, empty reported path
PerRequestError ==
    /\ cur.parsed
    /\ \/ ~cur.req.ok
       \/ cur.req.msg.action # S_download
       \/ ~cur.req.msg.url.some \/ ~cur.req.msg.output_path.some
       \/ cur.spawn = "failed"
       \/ cur.returned /\ (cur.run.code # 0 \/ ReportedPath = <<>>)

\* the read the loop is blocked in cannot be satisfied any more
InputEnded ==
    /\ stdinClosed
    /\ \/ pc = "read_len" /\ Len(stdin) < 4
       \/ pc = "read_body" /\ Len(stdin) < message_length

\* C6: a per-request error (parse failure, missing parameter, unknown action,
\* spawn failure, non-zero exit, empty path) gives exactly one success=false
\* response for its frame, after which the loop reads the next frame; the
\* loop ends only when a read from stdin fails or a write or flush fails.
C6_ErrorsDoNotEndLoop ==
    /\ [](mode = "native" =>
            /\ (Responding /\ PerRequestError) => ~response.success
            /\ pc \in {"read_len", "read_body"} =>
                   stats.responses + stats.discarded = stats.frames
            /\ pc \in {"dispatch", "output", "write_len", "write_body", "flush"} =>
                   stats.responses + stats.discarded = stats.frames - 1)
    /\ [][/\ (pc # "done" /\ pc' = "done") =>
                 \/ InputEnded
                 \/ /\ pc \in {"write_len", "write_body", "flush"}
                    /\ wire' = wire /\ stats' = stats
          /\ (pc = "dispatch" /\ pc' # pc /\ IsUtf8(message_buffer)) =>
                 pc' \in {"write_len", "output"}
          /\ (pc = "output" /\ pc' # pc) => pc' = "write_len"
          /\ (pc = "flush" /\ pc' # "done" /\ pc' # pc) =>
                 /\ pc' = "read_len"
                 /\ wire' = wire \o ResponseFrame(response)
                 /\ stats'.responses = stats.responses + 1]_vars

C6_Witness ==
    /\ pc = "dispatch" /\ stats.frames = 2 /\ stats.responses = 1
    /\ wire = ResponseFrame(DownloadResponse(
                  Fail(S_FailedToExecute \o IO_NotFound)))

\* the frames the peer sent completely
CompleteFrames == IF cut THEN sent - 1 ELSE sent

\* C7: when the input ends with fewer than 4 length bytes, or with fewer body
\* bytes than the length prefix declares, the loop ends normally; for the
\* truncated frame no response is written and no subprocess is spawned, and
\* the responses written before stay as they are.
C7_TruncatedInput ==
    /\ [](/\ stats.frames <= CompleteFrames
          /\ stats.responses <= CompleteFrames
          /\ stats.spawns <= CompleteFrames
          /\ (pc = "done" /\ cur.end \in {"eof_length", "eof_body"}) =>
                 /\ ~cur.parsed /\ cur.spawn = "none"
                 /\ response = NoResponse /\ outBuf = <<>>
                 /\ children = <<>>)
    /\ [][InputEnded =>
              /\ pc' = "done"
              /\ cur'.end \in {"eof_length", "eof_body"}
              /\ wire' = wire /\ outBuf' = outBuf
              /\ stats' = stats
              /\ children' = children]_vars

C7_Witness ==
    /\ pc = "done" /\ cur.end = "eof_body" /\ cut
    /\ message_length = Len(B_DownloadFull)
    /\ stats.responses = 1 /\ wire # <<>>

(***************************************************************************)
(* Framing round trip: the loop sends a response whose text has one of     *)
(* several lengths, the peer echoes the bytes it received, and the loop    *)
(* reads them back as a frame.                                             *)
(***************************************************************************)
\* lengths of the stderr text in the response that is sent: the bodies are
\* 61 bytes longer, below and above 255 bytes
FramingFills == {0, 39, 200, 500}

\* n bytes of text
Filler(n) == [i \in 1..n |-> 120]

\* the loop is about to send the response to a failed download whose
\* stderr text was n bytes long
InitFraming ==
    /\ \E p \in Platforms : os = p.os /\ endian = p.endian
    /\ mode = SelectMode(TRUE, TRUE, os)
    /\ stdin = <<>>
    /\ stdinClosed = FALSE
    /\ sent = 0
    /\ cut = FALSE
    /\ pc = "write_len"
    /\ message_length = 0
    /\ message_buffer = <<>>
    /\ \E n \in FramingFills :
           response = DownloadResponse(download_video(<<117>>, <<111>>,
                          Output(1, <<>>, Filler(n))))
    /\ response_json = <<>>
    /\ outBuf = <<>>
    /\ wire = <<>>
    /\ children = <<>>
    /\ capOut = <<>>
    /\ capErr = <<>>
    /\ cur = NoCur
    /\ stats = [NoStats EXCEPT !.frames = 1]
    /\ registry = [parent |-> FALSE, host |-> FALSE, value |-> None]
    /\ manifest = None
    /\ lastCmd = NoCmd
    /\ gui_pc = "idle"

\* the peer sends back the bytes it received
Loopback ==
    /\ mode = "native" /\ sent = 0 /\ wire # <<>>
    /\ stdin' = stdin \o wire
    /\ sent' = 1
    /\ UNCHANGED <<stdinClosed, cut, children, loopVars, guiVars, platformVars>>

NextFraming ==
    \/ WriteLength
    \/ WriteContent
    \/ Flush
    \/ Loopback
    \/ ReadLength
    \/ ReadBody
    \/ Dispatch

SpecFraming == InitFraming /\ [][NextFraming]_vars

C9_AfterAnyCall ==
    lastCmd.call = "check_registration"
    => IF os = "windows"
       THEN /\ lastCmd.prev = "register_host" => lastCmd.value
            /\ lastCmd.prev = "unregister_host" => ~lastCmd.value
       ELSE ~lastCmd.value

\* C9 (amended): on the supported platform a check_registration after a
\* register_host call that returned Ok reports true and after an
\* unregister_host call that returned Ok reports false; on other platforms
\* check_registration always reports false.
C9_AfterSuccessfulCall ==
    lastCmd.call = "check_registration"
    => /\ lastCmd.ok
       /\ IF os = "windows"
          THEN /\ (lastCmd.prev = "register_host" /\ lastCmd.prevOk)
                      => lastCmd.value
               /\ (lastCmd.prev = "unregister_host" /\ lastCmd.prevOk)
                      => ~lastCmd.value
          ELSE ~lastCmd.value

C9_Witness ==
    /\ mode = "gui" /\ os = "windows"
    /\ lastCmd.call = "check_registration"
    /\ lastCmd.prev = "register_host" /\ lastCmd.prevOk
    /\ lastCmd.value /\ registry.host /\ manifest.some

\* C10: the loop is strictly sequential: while a frame is being processed no
\* other frame is read, responses are written in the order of their frames,
\* at most one child process exists at any time, and the child of a download
\* has exited and been reaped before its response is written and before the
\* next frame is read.
C10_Sequential ==
    /\ [](/\ Len(children) <= 1
          /\ mode = "native" => stats.spawns - stats.reaps = Len(children)
          /\ (mode = "native" /\ children # <<>>) => pc = "output"
          /\ (Responding /\ cur.spawn = "spawned") =>
                 cur.returned /\ children = <<>>)
    /\ [][/\ Len(stdin') < Len(stdin) =>
                 /\ pc \in {"read_len", "read_body"}
                 /\ outBuf = <<>> /\ response = NoResponse
                 /\ children = <<>>
          /\ stats'.frames # stats.frames =>
                 stats.responses + stats.discarded = stats.frames
          /\ (wire' # wire \/ outBuf' # outBuf) =>
                 /\ children = <<>>
                 /\ stats.frames = stats.responses + stats.discarded + 1
          /\ wire' # wire =>
                 /\ wire' = wire \o ResponseFrame(response)
                 /\ stats'.responses = stats.responses + 1]_vars

C10_Witness ==
    /\ pc = "flush" /\ cur.spawn = "spawned" /\ cur.returned
    /\ stats.reaps = 1 /\ children = <<>>
    /\ stdin # <<>> /\ stats.frames = 1

\* the loop was left because a write to stdout failed
WriteFailed == pc = "done" /\ cur.end \in {"write_length", "write_content", "flush"}

\* C11: a failed write of the length prefix, of the body, or a failed flush
\* ends the loop: afterwards no frame is read, no subprocess is spawned and
\* nothing more is written to stdout.  On success the length prefix, the body
\* and the flush happen in that order before the next frame is read.
C11_WriteFailureIsFatal ==
    /\ [](pc \in {"write_body", "flush"} =>
              /\ response_json = ToJson(response)
              /\ outBuf = IF pc = "write_body"
                          THEN ToNeBytes(Len(response_json))
                          ELSE ToNeBytes(Len(response_json)) \o response_json)
    /\ [][/\ WriteFailed =>
                 /\ pc' = "done" /\ cur' = cur
                 /\ Len(stdin') >= Len(stdin)
                 /\ stats' = stats /\ children' = children
                 /\ wire' = wire /\ outBuf' = outBuf
          /\ (pc = "write_len" /\ pc' # pc) =>
                 \/ pc' = "write_body" /\ outBuf = <<>>
                 \/ pc' = "done" /\ cur'.end = "write_length" /\ outBuf' = outBuf
          /\ (pc = "write_body" /\ pc' # pc) =>
                 \/ pc' = "flush"
                 \/ pc' = "done" /\ cur'.end = "write_content" /\ outBuf' = outBuf
          /\ (pc = "flush" /\ pc' # pc) =>
                 \/ pc' = "read_len" /\ wire' = wire \o outBuf /\ outBuf' = <<>>
                 \/ pc' = "done" /\ cur'.end = "flush" /\ wire' = wire
          /\ wire' # wire => pc = "flush"
          /\ Len(stdin') < Len(stdin) => pc \in {"read_len", "read_body"}]_vars

C11_Witness ==
    /\ WriteFailed /\ cur.end = "write_content"
    /\ stats.frames = 1 /\ stats.responses = 0
    /\ Len(stdin) > 4 /\ wire = <<>> /\ outBuf # <<>>

\* C12: a completely read frame whose body is not valid UTF-8 is dropped: no
\* response is written for it, no subprocess is spawned and the loop reads
\* the next frame; so the responses written never outnumber the complete
\* frames read, and they are as many as the complete frames with a valid
\* UTF-8 body whose processing was finished.
C12_BadUtf8Discarded ==
    /\ [](/\ stats.responses + stats.discarded <= stats.frames
          /\ stats.frames <= CompleteFrames
          /\ pc \in {"read_len", "read_body"} =>
                 stats.responses = stats.frames - stats.discarded
          /\ pc \in {"output", "write_len", "write_body", "flush"} =>
                 /\ IsUtf8(message_buffer)
                 /\ stats.responses = stats.frames - stats.discarded - 1
          /\ Len(wire) > 0 => stats.responses > 0)
    /\ [][/\ (pc = "dispatch" /\ ~IsUtf8(message_buffer) /\ pc' # pc) =>
                 /\ pc' = "read_len"
                 /\ stats'.discarded = stats.discarded + 1
                 /\ stats'.responses = stats.responses
                 /\ stats'.spawns = stats.spawns
                 /\ response' = NoResponse /\ cur' = NoCur
                 /\ wire' = wire /\ outBuf' = <<>> /\ children' = <<>>
          /\ stats'.discarded # stats.discarded =>
                 pc = "dispatch" /\ ~IsUtf8(message_buffer)]_vars

C12_Witness ==
    /\ stats.discarded = 1 /\ stats.frames = 2 /\ stats.responses = 1
    /\ pc = "read_len" /\ wire # <<>>
    /\ stats.spawns = 0

\* C13: a request whose action field is absent or is the empty string is
\* answered with the Unknown action failure, as any other action that is not
\* "download", and not with a parse failure.
C13_AbsentOrEmptyAction ==
    (Responding /\ message_buffer \in {B_NoAction, B_EmptyAction}) =>
        /\ response = UnknownActionResponse
        /\ ~StartsWithAt(response.message.v, 1, S_FailedToParse)

\* the request without an action field has been answered, with the parse
\* failure serde_json reports for the missing field
C13_Witness ==
    /\ pc = "flush" /\ message_buffer = B_NoAction
    /\ response = ParseErrorResponse(E_MissingAction)
    /\ Written(response)

\* the child cannot go on: it has output left and every pipe it has output
\* for is full
ChildBlocked(c) ==
    /\ c.state = "running"
    /\ c.out # <<>> \/ c.err # <<>>
    /\ c.out # <<>> => Len(c.pipeOut) = PipeCap
    /\ c.err # <<>> => Len(c.pipeErr) = PipeCap

\* the host waits for the child and finds nothing in the pipes it reads:
\* command.output() reads both, test_download reads stdout only
HostBlocked(c) ==
    \/ mode = "native" /\ pc = "output" /\ c.pipeOut = <<>> /\ c.pipeErr = <<>>
    \/ mode = "gui" /\ gui_pc = "read_stdout" /\ c.pipeOut = <<>>

\* C14: in both runner modes (download_video and test_download) every piped
\* output stream of the child is drained while the host waits for it, so in
\* no reachable state is the host blocked on the child while the child is
\* blocked writing to a full pipe.
C14_PipesDrained ==
    \A i \in 1..Len(children) :
        ~(ChildBlocked(children[i]) /\ HostBlocked(children[i]))

\* download_video's child blocked on a full stdout pipe, which the host
\* is about to drain
C14_Witness ==
    /\ mode = "native" /\ pc = "output" /\ children # <<>>
    /\ ChildBlocked(children[1])
    /\ Len(children[1].pipeOut) = PipeCap /\ children[1].out # <<>>
    /\ ~HostBlocked(children[1])

\* C15: when the tool cannot be started for a download request, the request
\* is answered with success=false, filePath null and a message that names
\* the tool and differs from the messages for a non-zero exit and for an
\* empty path; the host does not end and the loop goes on to the next frame.
C15_SpawnFailure ==
    /\ [](/\ (Responding /\ cur.spawn = "failed") =>
                 /\ ~response.success
                 /\ response.file_path = None
                 /\ response.message.some
                 /\ StartsWithAt(response.message.v, 1, S_FailedToExecute)
                 /\ Contains(response.message.v, S_YtDlp)
                 /\ ~StartsWithAt(response.message.v, 1, S_YtDlpFailed)
                 /\ response.message.v # S_NoFilePath
                 /\ children = <<>>
          /\ (Responding /\ cur.spawn # "failed") =>
                 ~StartsWithAt(response.message.v, 1, S_FailedToExecute)
          /\ (pc = "done" /\ cur.spawn = "failed") => WriteFailed)
    /\ [][(cur.spawn = "failed" /\ pc' # pc) =>
              \/ pc = "write_len" /\ pc' = "write_body"
              \/ pc = "write_body" /\ pc' = "flush"
              \/ pc = "flush" /\ pc' = "read_len" /\ stats'.responses = stats.responses + 1
              \/ pc' = "done" /\ cur'.end \in {"write_length", "write_content", "flush"}]_vars

\* the first request could not start the tool and was answered; the loop
\* has read the second frame
C15_Witness ==
    /\ wire = ResponseFrame(DownloadResponse(Fail(S_FailedToExecute \o IO_NotFound)))
    /\ stats.frames = 2 /\ pc = "dispatch" /\ stats.spawns = 0

\* the text is empty or made of ASCII white space only
IsBlank(s) == \A i \in 1..Len(s) : s[i] \in {9, 10, 11, 12, 13, 32}

\* C16: when the tool exits with status zero but reported an empty path on
\* stdout (or only white space, which is trimmed away), download_video fails
\* saying the tool returned no path and the response is success=false with
\* filePath null; a success=true response never carries an empty filePath.
C16_EmptyPath ==
    /\ (Responding /\ cur.spawn = "spawned" /\ cur.run.code = 0
            /\ IsBlank(cur.run.stdout)) =>
           /\ download_video(cur.req.msg.url.v, cur.req.msg.output_path.v,
                             Output(0, cur.run.stdout, cur.run.stderr))
                  = Fail(S_NoFilePath)
           /\ response = [success |-> FALSE, message |-> Some(S_NoFilePath),
                          file_path |-> None]
    /\ (Responding /\ response.success) =>
           /\ response.file_path.some
           /\ response.file_path.v # <<>>
           /\ ~IsBlank(response.file_path.v)
    /\ (pc = "flush" /\ response.success) =>
           ~Contains(outBuf, J_filePath \o <<34, 34>>)

C16_Witness ==
    /\ pc = "flush" /\ cur.spawn = "spawned" /\ cur.returned
    /\ cur.run.code = 0 /\ cur.run.stdout = O_Blank
    /\ response.message = Some(S_NoFilePath)
    /\ Written(response)

\* C17: register, unregister and check-registration are idempotent.  A
\* register_host right after a register_host succeeds again and leaves the
\* registry and the manifest as one call does; an unregister_host when no
\* entry exists is not a failure for the caller and leaves the system
\* unregistered, so that a second unregister_host ends where the first did;
\* check_registration never returns an error.  (The calls are taken with no
\* step refused by the operating system, on the platform that has a registry.)
C17_Idempotent ==
    os = "windows" =>
        /\ (lastCmd.call = "register_host" /\ lastCmd.ok) =>
               \A id \in ExtensionIds :
                   /\ register_host(id, "none").ok
                   /\ register_host(id, "none").registry = registry
                   /\ manifest = ManifestContent(id) =>
                          register_host(id, "none").manifest = manifest
        /\ ~registry.host =>
               /\ unregister_host("none").ok
               /\ ~unregister_host("none").registry.host
        /\ (lastCmd.call = "unregister_host" /\ lastCmd.ok) =>
               /\ unregister_host("none").registry = registry
               /\ unregister_host("none").manifest = manifest
        /\ lastCmd.call = "check_registration" => lastCmd.ok

\* unregister_host has just succeeded, and calling it again returns Err
C17_Witness ==
    /\ os = "windows" /\ mode = "gui"
    /\ lastCmd.call = "unregister_host" /\ lastCmd.ok
    /\ ~registry.host /\ registry.parent /\ manifest = None
    /\ ~unregister_host("none").ok
    /\ unregister_host("none").registry = registry

\* the response to a body and a tool outcome, computed from these two alone
\* (spawn: "none", "failed" or "spawned"; run: what the tool did)
ResponseFor(body, spawn, run) ==
    The({IF ~req.ok THEN ParseErrorResponse(req.err)
         ELSE IF req.msg.action # S_download THEN UnknownActionResponse
         ELSE IF ~(req.msg.url.some /\ req.msg.output_path.some)
              THEN MissingParamsResponse
         ELSE IF spawn = "failed"
              THEN DownloadResponse(Fail(S_FailedToExecute \o IO_NotFound))
         ELSE DownloadResponse(download_video(
                  req.msg.url.v, req.msg.output_path.v,
                  Output(run.code, run.stdout, run.stderr))) :
             req \in {FromStr(body)}})

\* C18: the response to a frame is a function of that frame's body and of
\* the tool outcome for that request: no state survives an iteration, so the
\* same frame with the same tool outcome gets the same response bytes
\* whatever frames were processed before it.
C18_NoStateAcrossIterations ==
    /\ Responding =>
           /\ response = ResponseFor(message_buffer, cur.spawn, cur.run)
           /\ pc # "write_len" => response_json = ToJson(response)
           /\ pc = "flush" =>
                  outBuf = ResponseFrame(
                      ResponseFor(message_buffer, cur.spawn, cur.run))
    /\ (mode = "native" /\ pc = "read_len") =>
           /\ message_length = 0 /\ message_buffer = <<>>
           /\ response = NoResponse /\ response_json = <<>>
           /\ outBuf = <<>> /\ capOut = <<>> /\ capErr = <<>>
           /\ cur = NoCur /\ children = <<>>

\* the second of two downloads, with the same request as the first, is
\* answered after the first was
C18_Witness ==
    /\ pc = "flush" /\ stats.responses = 1 /\ stats.reaps = 2
    /\ wire # <<>> /\ message_buffer = B_DownloadFull
    /\ outBuf # wire
    /\ Written(response)

\* C19: starting from an unregistered system, after any sequence of
\* register_host and unregister_host calls, including calls that fail at any
\* intermediate step, whenever the host's registry key exists the manifest
\* file exists too: register_host writes the manifest before it creates the
\* key, unregister_host deletes the key before it removes the manifest and
\* returns without touching the manifest when the key cannot be deleted.
C19_KeyImpliesManifest ==
    /\ registry.host => manifest.some
    /\ registry.host => registry.parent
    /\ registry.value.some => registry.host /\ registry.value = ManifestPath
    /\ (lastCmd.call = "unregister_host" /\ ~lastCmd.ok /\ registry.host) =>
           manifest.some

\* unregister_host could not delete the key: key and manifest are both
\* still there
C19_Witness ==
    /\ os = "windows" /\ mode = "gui"
    /\ lastCmd.call = "unregister_host" /\ ~lastCmd.ok
    /\ registry.host /\ registry.value = ManifestPath
    /\ manifest.some /\ manifest # TruncatedManifest

(***************************************************************************)
(* Progress of the message loop.  The loop is one sequential thread that   *)
(* the operating system keeps running: a step of it that stays possible is *)
(* eventually taken.  That the tool keeps running until it exits is the    *)
(* provision under which progress is claimed.                              *)
(***************************************************************************)
\* the bodies the peer sends in the runs checked for progress
LiveBodies == {B_DownloadFull, B_BadUtf8}

InitLive ==
    /\ Init
    /\ mode = "native" /\ os = "windows" /\ ~registry.parent

PeerSendLive ==
    /\ PeerSend
    /\ \E body \in LiveBodies : stdin' = stdin \o PeerFrame(body)

\* a step of handle_native_messaging
HostStep ==
    \/ ReadLength
    \/ ReadBody
    \/ Dispatch
    \/ HostDrainOut
    \/ HostDrainErr
    \/ OutputReturn
    \/ WriteLength
    \/ WriteContent
    \/ Flush

\* a step of the tool
ChildStep ==
    \/ ChildWriteOut
    \/ ChildWriteErr
    \/ ChildExit

NextLive ==
    \/ PeerSendLive
    \/ PeerSendTruncated
    \/ PeerClose
    \/ HostStep
    \/ ChildStep

SpecLive ==
    /\ InitLive
    /\ [][NextLive]_vars
    /\ WF_vars(HostStep)
    /\ WF_vars(ChildStep)

\* C20: provided every tool invocation eventually exits and every write to
\* stdout succeeds, each completely received frame with a valid UTF-8 body is
\* eventually answered, with one response, and once the input has reached its
\* end the loop eventually terminates.  (A run in which a write fails ends
\* the loop instead, C11.)
C20_Progress ==
    /\ \A k \in 1..MaxFrames :
           (pc = "dispatch" /\ stats.frames = k /\ IsUtf8(message_buffer))
               ~> \/ /\ stats.responses + stats.discarded = k
                     /\ pc = "read_len" /\ wire # <<>>
                  \/ WriteFailed
    /\ stdinClosed ~> pc = "done"
    /\ [](stats.responses + stats.discarded <= stats.frames)
    /\ []((pc = "done" /\ ~WriteFailed) =>
              /\ stdinClosed /\ stdin = <<>>
              /\ stats.responses + stats.discarded = stats.frames)

\* the input has ended, every frame was answered and the loop has returned
C20_Witness ==
    /\ pc = "done" /\ cur.end = "eof_length"
    /\ stats.frames = 2 /\ stats.responses = 2 /\ stats.reaps = 2
    /\ children = <<>>

====
